---- MODULE Spec2Model ----
(***************************************************************************)
(* A model of the JLPT question extractors:                                *)
(*   JLPT-pdf-csv.py          extract_listening_questions,                 *)
(*                            extract_grammar_vocab_questions              *)
(*   JLPT-pdf-csv-grammar.py  extract_grammar_vocab_questions (draft),     *)
(*                            refine_with_manual_answers                   *)
(*   JLPT-pdf-csv-llm.py      extract_questions_with_llm                   *)
(*                                                                         *)
(* Text is a sequence of characters; a character is a one-symbol string.   *)
(* Characters outside ASCII are written by name: "IS" is the ideographic   *)
(* space U+3000, "NL" the newline, "BAN" the counter U+756A, "MON" "DAI"   *)
(* the two characters of the mondai label, "LB" "RB" the corner brackets,  *)
(* "ARROW" U+21D2, "NAKA" the middle dot U+30FB.                           *)
(***************************************************************************)
EXTENDS Integers, Sequences, FiniteSets, TLC

VARIABLES
    prog,       \* which entry point runs: "refine", "listening", "main", "draft", "llm", "marked"
    pc,         \* position of the run: "run", "done", "aborted"
    infile,     \* refine: rows of the manual csv
    outfile,    \* refine: rows written to the final csv
    passes,     \* refine: number of completed runs
    original,   \* refine: the manual csv as first submitted (history)
    fieldnames, \* refine: the header of the manual csv, its column names in order
    outheader,  \* refine: the header written to the final csv, None before a run
    section,                \* main, draft: "vocab" or "grammar"
    current_mondai,         \* main, draft: number of the current mondai, 0 when unset
    current_grammar_q_data, \* main, draft: the open accumulator, or None
    questions,              \* every extractor: the records emitted so far
    page_num,               \* every extractor: 1-based number of the page being read, 0 before the first
    underlines,             \* main, draft: underline rectangles of the page being read
    nlines,                 \* every extractor: lines or blocks read so far
    last,                   \* every extractor: the line or block read by the latest step, or None
    family,                 \* main, draft: the family of lines the document is made of
    span_underlines,        \* main, draft: for each line held in the open accumulator, the
                            \* underlines of the page it was read on (history)
    span_pages,             \* main, draft: for each line held in the open accumulator, the
                            \* number of the page it was read on (history)
    current_question_data,  \* listening: the open question, or None
    full_dialogue,          \* listening: the text gathered for the open question
    open_blocks,            \* listening: the blocks read since the open question's start block,
                            \* that block first, watermarked ones left out (history)
    probe,                  \* marked: the span handed to is_span_marked
    drawings,               \* marked: the drawing items of the page
    marked,                 \* marked: the classifier's answer, None before it ran
    outcomes,               \* llm: what each page read so far brought (history)
    json_text               \* llm: clean_llm_response(response.text) of the latest page, or None

refinevars == <<infile, outfile, passes, original, fieldnames, outheader>>

scanvars == <<section, current_mondai, current_grammar_q_data, questions, page_num,
              underlines, nlines, last, family, span_underlines, span_pages>>

listenvars == <<current_question_data, full_dialogue, open_blocks>>

markvars == <<probe, drawings, marked>>

llmvars == <<outcomes, json_text>>

vars == <<prog, pc, refinevars, scanvars, listenvars, markvars, llmvars>>

(***************************************************************************)
(* Bounds                                                                  *)
(***************************************************************************)
MaxQLen == 2        \* longest question text of a manual csv row
MaxRows == 2        \* most rows of a manual csv
MaxPasses == 2      \* most runs of the refinement stage
MaxPages == 2       \* most pages of a document
MaxLines == 4       \* most lines (or blocks) of a document
MaxItems == 2       \* most drawing items of a page handed to the classifier

\* A Python value that may be None is a sequence: <<>> for None, <<v>> for v.
None == <<>>

Some(v) == <<v>>

(***************************************************************************)
(* Text helpers (Python str / re semantics)                                *)
(***************************************************************************)
Digits == {"0", "1", "2", "3", "4", "5", "6", "7", "8", "9"}

\* str.isspace of one character: what str.strip() strips and what \s matches
IsSpace(c) == c \in {" ", "NL", "IS"}

IsDigit(c) == c \in Digits

MinOf(S) == CHOOSE x \in S : \A y \in S : x <= y

MaxOf(S) == CHOOSE x \in S : \A y \in S : x >= y

\* all texts over the characters C of length 0..n
TextsUpTo(C, n) == UNION {[1..k -> C] : k \in 0..n}

\* str.strip()
Strip(s) ==
    LET keep == {i \in 1..Len(s) : ~IsSpace(s[i])}
    IN  IF keep = {} THEN <<>> ELSE SubSeq(s, MinOf(keep), MaxOf(keep))

\* str.find(sub) + 1 : position of the first occurrence of sub in s, 0 if none
Find(s, sub) ==
    LET hits == {i \in 1..(Len(s) - Len(sub) + 1) : SubSeq(s, i, i + Len(sub) - 1) = sub}
    IN  IF hits = {} THEN 0 ELSE MinOf(hits)

\* sub in s
Contains(s, sub) == Find(s, sub) # 0

\* s.replace(old, new, 1)
ReplaceFirst(s, old, new) ==
    LET i == Find(s, old)
    IN  IF i = 0 THEN s
        ELSE SubSeq(s, 1, i - 1) \o new \o SubSeq(s, i + Len(old), Len(s))

\* the placeholder token " (______) "
Placeholder == <<" ", "(", "_", "_", "_", "_", "_", "_", ")", " ">>

\* the digits at the start of SubSeq(s, i, Len(s)): how many there are
DigitRun(s, i) ==
    LET stops == {j \in i..Len(s) : ~IsDigit(s[j])}
    IN  IF stops = {} THEN Len(s) - i + 1 ELSE MinOf(stops) - i

\* the whitespace at the start of SubSeq(s, i, Len(s)): how many characters
SpaceRun(s, i) ==
    LET stops == {j \in i..Len(s) : ~IsSpace(s[j])}
    IN  IF stops = {} THEN Len(s) - i + 1 ELSE MinOf(stops) - i

DigitVal(c) == CHOOSE n \in 0..9 : ToString(n) = c

\* int(digits)
RECURSIVE ToInt(_)
ToInt(d) == IF d = <<>> THEN 0 ELSE 10 * ToInt(SubSeq(d, 1, Len(d) - 1)) + DigitVal(d[Len(d)])

\* re.match(r'^(\d+)\.', s): the number of digits of group 1, 0 when there is no match
MatchOrdinal(s) ==
    LET k == DigitRun(s, 1)
    IN  IF k >= 1 /\ Len(s) >= k + 1 /\ s[k + 1] = "." THEN k ELSE 0

\* re.sub(r'^\d+\.\s*', '', s)
SubOrdinal(s) ==
    LET k == MatchOrdinal(s)
    IN  IF k = 0 THEN s
        ELSE SubSeq(s, k + 2 + SpaceRun(s, k + 2), Len(s))

\* re.match(r'MON DAI (\d+)', s): Some(int(group 1)), or None
MondaiMatchOffByOne(s) ==
    IF Len(s) >= 3 /\ s[1] = "MON" /\ s[2] = "DAI" /\ DigitRun(s, 3) >= 1
    THEN Some(ToInt(SubSeq(s, 3, 2 + DigitRun(s, 3))) + 1)
    ELSE None

MondaiMatch(s) ==
    IF Len(s) >= 3 /\ s[1] = "MON" /\ s[2] = "DAI" /\ DigitRun(s, 3) >= 1
    THEN Some(ToInt(SubSeq(s, 3, 2 + DigitRun(s, 3))))
    ELSE None

\* s.split(c, 1): one or two parts
SplitOnce(s, c) ==
    LET i == Find(s, <<c>>)
    IN  IF i = 0 THEN <<s>> ELSE <<SubSeq(s, 1, i - 1), SubSeq(s, i + 1, Len(s))>>

\* s.split(c): every part
RECURSIVE Split(_, _)
Split(s, c) ==
    LET i == Find(s, <<c>>)
    IN  IF i = 0 THEN <<s>> ELSE <<SubSeq(s, 1, i - 1)>> \o Split(SubSeq(s, i + 1, Len(s)), c)

\* c.join(parts)
RECURSIVE Join(_, _)
Join(parts, c) ==
    IF parts = <<>> THEN <<>>
    ELSE IF Len(parts) = 1 THEN parts[1]
    ELSE parts[1] \o <<c>> \o Join(Tail(parts), c)

\* "".join(texts)
RECURSIVE Concat(_)
Concat(texts) == IF texts = <<>> THEN <<>> ELSE Head(texts) \o Concat(Tail(texts))

\* re.search of line 244 (digits, '.', anything, LB, anything, RB):
\* Some(<<group 1, group 2, group 3>>), or None.
\* The search takes the leftmost start; all three groups are greedy, so group 2
\* ends at the last LB that still has an RB after it and group 3 at the last RB.
\* '.' does not match a newline.
KanjiSearchNoClosing(s) ==
    LET lb == Find(s, <<"LB">>)
    IN  Some(<<SubSeq(s, 1, 1), SubSeq(s, 1, lb - 1), SubSeq(s, lb + 1, Len(s))>>)

KanjiSearch(s) ==
    LET ok(i) ==  \* a match starts at i
            /\ IsDigit(s[i])
            /\ i + DigitRun(s, i) <= Len(s)
            /\ s[i + DigitRun(s, i)] = "."
            /\ \E p \in (i + DigitRun(s, i) + 1)..Len(s) : \E q \in (p + 1)..Len(s) :
                  /\ s[p] = "LB" /\ s[q] = "RB"
                  /\ \A j \in (i + DigitRun(s, i) + 1)..q : s[j] # "NL"
        starts == {i \in 1..Len(s) : ok(i)}
    IN  IF starts = {} THEN None
        ELSE LET i   == MinOf(starts)
                 dot == i + DigitRun(s, i)
                 fit == {pq \in ((dot + 1)..Len(s)) \X ((dot + 1)..Len(s)) :
                            /\ pq[1] < pq[2]
                            /\ s[pq[1]] = "LB" /\ s[pq[2]] = "RB"
                            /\ \A j \in (dot + 1)..pq[2] : s[j] # "NL"}
                 p   == MaxOf({pq[1] : pq \in fit})
                 q   == MaxOf({pq[2] : pq \in {f \in fit : f[1] = p}})
             IN  Some(<<SubSeq(s, i, dot - 1), SubSeq(s, dot + 1, p - 1), SubSeq(s, p + 1, q - 1)>>)

(***************************************************************************)
(* Geometry: get_underlines and is_span_marked (JLPT-pdf-csv.py 84-129)    *)
(* Coordinates are integers; a rectangle is [x0, y0, x1, y1].              *)
(***************************************************************************)
Rect(x0, y0, x1, y1) == [x0 |-> x0, y0 |-> y0, x1 |-> x1, y1 |-> y1]

Abs(n) == IF n < 0 THEN 0 - n ELSE n

\* fitz.Rect.height and fitz.Rect.width
RectHeight(r) == IF r.y1 - r.y0 > 0 THEN r.y1 - r.y0 ELSE 0

RectWidth(r) == IF r.x1 - r.x0 > 0 THEN r.x1 - r.x0 ELSE 0

\* a drawing item: ["l", p1, p2], ["re", rect] or another command such as ["c", ...]
LineItem(x0, y0, x1, y1) == [cmd |-> "l", rect |-> Rect(x0, y0, x1, y1)]

RectItem(x0, y0, x1, y1) == [cmd |-> "re", rect |-> Rect(x0, y0, x1, y1)]

CurveItem(x0, y0, x1, y1) == [cmd |-> "c", rect |-> Rect(x0, y0, x1, y1)]

\* the test of one drawing item, lines 94-104
IsUnderlineItemAnyWidth(item) ==
    IF item.cmd = "l" THEN Abs(item.rect.y0 - item.rect.y1) <= 2
    ELSE IF item.cmd = "re" THEN RectHeight(item.rect) <= 2
    ELSE FALSE

IsUnderlineItem(item) ==
    IF item.cmd = "l" THEN Abs(item.rect.y0 - item.rect.y1) <= 2
    ELSE IF item.cmd = "re" THEN RectHeight(item.rect) <= 2 /\ RectWidth(item.rect) > 0
    ELSE FALSE

\* get_underlines(page) on the page's drawing items, in order
get_underlines(items) ==
    LET keep == SelectSeq(items, IsUnderlineItem)
    IN  [i \in 1..Len(keep) |-> keep[i].rect]

\* span['flags'] & 16
BoldBit(flags) == (flags \div 16) % 2

\* the geometric test of one underline r, line 126; the midpoint
\* (x0 + x1) / 2 is compared doubled to stay in the integers
UnderlineHitsLoose(span, r) ==
    /\ 2 * r.x0 <= span.bbox.x0 + span.bbox.x1
    /\ span.bbox.x0 + span.bbox.x1 <= 2 * r.x1
    /\ 0 <= r.y0 - span.bbox.y1
    /\ r.y0 - span.bbox.y1 <= 4

UnderlineHits(span, r) ==
    /\ 2 * r.x0 <= span.bbox.x0 + span.bbox.x1
    /\ span.bbox.x0 + span.bbox.x1 <= 2 * r.x1
    /\ 0 <= r.y0 - span.bbox.y1
    /\ r.y0 - span.bbox.y1 < 4

\* the for loop of lines 122-129 over underlines[i..]
RECURSIVE AnyUnderlineFrom(_, _, _)
AnyUnderlineFrom(span, uls, i) ==
    IF i > Len(uls) THEN FALSE
    ELSE IF UnderlineHits(span, uls[i]) THEN TRUE
    ELSE AnyUnderlineFrom(span, uls, i + 1)

is_span_markedNoBold(span, uls) == AnyUnderlineFrom(span, uls, 1)

is_span_marked(span, uls) ==
    IF BoldBit(span.flags) # 0 THEN TRUE
    ELSE AnyUnderlineFrom(span, uls, 1)

(***************************************************************************)
(* refine_with_manual_answers (JLPT-pdf-csv-grammar.py)                    *)
(***************************************************************************)
RefineChars == {"a", "_"}

\* the answer column: empty, a letter, and an underscore with a space to strip
RefineAnswers == {<<>>, <<"a">>, <<" ", "_">>}

ManualRows == [question : TextsUpTo(RefineChars, MaxQLen),
               answer   : RefineAnswers,
               type     : {"Grammar/Reading"}]

\* the header orders a caller may choose for the three columns
Headers == { <<"type", "question", "answer">>,
             <<"question", "answer", "type">>,
             <<"answer", "type", "question">> }

\* the loop body, lines 130-136: the row as it is handed to the writer
RefineRowStripsAnswer(row) ==
    LET question == row.question
        answer   == Strip(row.answer)
    IN  IF answer # <<>> /\ Contains(question, answer)
        THEN [row EXCEPT !.question = ReplaceFirst(question, answer, Placeholder),
                         !.answer = answer]
        ELSE row

RefineRow(row) ==
    LET question == row.question
        answer   == Strip(row.answer)
    IN  IF answer # <<>> /\ Contains(question, answer)
        THEN [row EXCEPT !.question = ReplaceFirst(question, answer, Placeholder)]
        ELSE row

IdleRefine ==
    /\ infile = <<>>
    /\ outfile = <<>>
    /\ passes = 0
    /\ original = <<>>
    /\ fieldnames = <<>>
    /\ outheader = None

IdleScan ==
    /\ section = "vocab"
    /\ current_mondai = 0
    /\ current_grammar_q_data = None
    /\ questions = <<>>
    /\ page_num = 0
    /\ underlines = <<>>
    /\ nlines = 0
    /\ last = None
    /\ span_underlines = <<>>
    /\ span_pages = <<>>

IdleListening ==
    /\ current_question_data = None
    /\ full_dialogue = <<>>
    /\ open_blocks = <<>>

IdleMarked ==
    /\ probe = None
    /\ drawings = <<>>
    /\ marked = None

IdleLLM == outcomes = <<>> /\ json_text = None

InitRefine ==
    /\ prog = "refine"
    /\ pc = "run"
    /\ IdleMarked
    /\ IdleLLM
    /\ IdleScan
    /\ family = "grammar"
    /\ IdleListening
    /\ \E n \in 1..MaxRows : infile \in [1..n -> ManualRows]
    /\ original = infile
    /\ fieldnames \in Headers
    /\ outheader = None
    /\ outfile = <<>>
    /\ passes = 0

\* one run of refine_with_manual_answers: every row is refined and written
RefinePass ==
    /\ prog = "refine"
    /\ pc = "run"
    /\ passes < MaxPasses
    /\ outheader' = Some(fieldnames)
    /\ outfile' = [i \in 1..Len(infile) |-> RefineRow(infile[i])]
    /\ passes' = passes + 1
    /\ pc' = "done"
    /\ UNCHANGED <<prog, infile, original, fieldnames, scanvars, listenvars, markvars, llmvars>>

\* the caller feeds the final csv back in as the manual csv of a further run
Resubmit ==
    /\ prog = "refine"
    /\ pc = "done"
    /\ passes < MaxPasses
    /\ infile' = outfile
    /\ fieldnames' = outheader[1]
    /\ pc' = "run"
    /\ UNCHANGED <<prog, outfile, passes, original, outheader, scanvars, listenvars, markvars, llmvars>>

NextRefine == RefinePass \/ Resubmit

SpecRefine == InitRefine /\ [][NextRefine]_vars

(***************************************************************************)
(* Documents: spans, lines and page drawings the extractors are run on     *)
(***************************************************************************)
\* the three horizontal positions a span can take on its line; the bottom
\* edge of every span is y = 100
SlotBox(k) == Rect(40 * (k - 1), 90, 40 * (k - 1) + 20 * k, 100)

Span(text, slot, flags) == [text |-> text, bbox |-> SlotBox(slot), flags |-> flags]

VocabMarker == <<"MO", "JI", "NAKA", "GO", "I">>

GrammarMarker == <<"BU", "N", "PO", "U", "NAKA", "DO", "TSU", "KA", "I">>

\* the watermark list handed to the extractors (JLPT-pdf-csv.py line 283)
WatermarkTexts == {<<"M", "o", "g", "i">>, <<"N", "4", "TOU", "AN">>}

\* the sentence "1.watasi ha gakusei desu." in three spans, the middle one at slot 2
SentenceLine ==
    << Span(<<"1", ".", "WA", "TA", "SI", "IS", "HA", "IS">>, 1, 0),
       Span(<<"GA", "KU", "SE", "I">>, 2, 0),
       Span(<<"IS", "DE", "SU", "MARU">>, 3, 0) >>

MondaiLine(n) == << Span(<<"MON", "DAI", ToString(n)>>, 1, 0) >>

MondaiNumbers == {1, 3, 4, 5, 6}

\* lines that hold a watermark text next to something the scan would act on
WatermarkedLines ==
    {  << Span(<<"MON", "DAI", "3", "M", "o", "g", "i">> \o GrammarMarker, 1, 0) >>,
       << Span(<<"2", ".", "N", "4", "TOU", "AN">> \o VocabMarker, 1, 0) >> }

\* a numbered line "4.a=a" whose second "a" is a bold span of its own
SynonymLine == << Span(<<"4", ".", "a", "=">>, 1, 0), Span(<<"a">>, 2, 16) >>

KanjiLine == << Span(<<"3", ".", "KAN", "LB", "k", "a", "RB">>, 1, 0) >>

\* no ordinal; the second span is bold and ends in an ideographic space
PlainLine == << Span(<<"t">>, 1, 0), Span(<<"u", "IS">>, 2, 16) >>

\* an ordinal and nothing else
OrdinalOnlyLine == << Span(<<"2", ".">>, 1, 0) >>

\* The lines a page can hold, by the family of the document. An answer key
\* in the grammar family moves between the two sections and holds sentences;
\* one in the vocab family stays in the vocab section and moves through the
\* mondai groups.
LinesOf(fam) ==
    IF fam = "grammar"
    THEN WatermarkedLines
         \cup {  << Span(VocabMarker, 1, 0) >>,
                 << Span(GrammarMarker, 1, 0) >>,
                 MondaiLine(3),
                 SentenceLine,
                 OrdinalOnlyLine,
                 << Span(<<"IS">>, 1, 0) >>,                                 \* white space only
                 PlainLine,
                 SynonymLine }
    ELSE {  << Span(<<"2", ".", "N", "4", "TOU", "AN">> \o VocabMarker, 1, 0) >>,
            KanjiLine,
            SynonymLine,
            << Span(<<"a", "=", "b">>, 1, 0) >>,                             \* '=' and no ordinal
            << Span(<<"5", ".", "a", "b", "ARROW", "b", "a">>, 1, 0) >>,     \* sentence construction
            << Span(<<"6", ".", "LB", "k">>, 1, 0) >>,                       \* a bracket never closed
            PlainLine }
         \cup {MondaiLine(n) : n \in MondaiNumbers}

Families == {"grammar", "vocab"}

\* every line of either family
Lines == LinesOf("grammar") \cup LinesOf("vocab")

\* the drawings a page can hold: a thick bar under slot 2 and nothing else,
\* or that bar and a thin one under slot 2
PageDrawings ==
    {  << RectItem(40, 102, 80, 110) >>,
       << RectItem(40, 102, 80, 110), RectItem(40, 102, 80, 103) >> }

(***************************************************************************)
(* extract_grammar_vocab_questions (JLPT-pdf-csv.py 132-271)               *)
(***************************************************************************)
\* "".join([span['text'] for span in line['spans']]).strip()
LineText(line) == Strip(Concat([i \in 1..Len(line) |-> line[i].text]))

IsWatermarkedWhole(text) == text \in WatermarkTexts

\* any(wt in line_text for wt in watermark_texts)
IsWatermarked(text) == \E wt \in WatermarkTexts : Contains(text, wt)

\* the texts of the marked spans among spans, concatenated in order
MarkedTextAll(spans, uls) == Concat([i \in 1..Len(spans) |-> spans[i].text])

RECURSIVE MarkedText(_, _)
MarkedText(spans, uls) ==
    IF spans = <<>> THEN <<>>
    ELSE (IF is_span_marked(Head(spans), uls) THEN Head(spans).text ELSE <<>>)
         \o MarkedText(Tail(spans), uls)

\* lines 139-144: full_sentence before it is stripped
RECURSIVE FullSentence(_)
FullSentence(lines) ==
    IF lines = <<>> THEN <<>>
    ELSE Concat([i \in 1..Len(Head(lines)) |-> Head(lines)[i].text]) \o <<"NL">>
         \o FullSentence(Tail(lines))

\* lines 139-143: answer_text before it is stripped
RECURSIVE AnswerText(_, _)
AnswerText(lines, uls) ==
    IF lines = <<>> THEN <<>>
    ELSE MarkedText(Head(lines), uls) \o AnswerText(Tail(lines), uls)

QuestionTextKeepsOrdinal(full_sentence, answer_text) ==
    Strip(IF answer_text # <<>>
          THEN ReplaceFirst(full_sentence, answer_text, Placeholder)
          ELSE full_sentence)

\* lines 149-154: the question text from the sentence and the stripped answer
QuestionText(full_sentence, answer_text) ==
    Strip(SubOrdinal(IF answer_text # <<>>
                     THEN ReplaceFirst(full_sentence, answer_text, Placeholder)
                     ELSE full_sentence))

\* process_and_save_grammar_question(data, page_underlines): the list
\* questions after the call
process_and_save_grammar_questionFlushPage(data, page_underlines, qs) ==
    IF data = None THEN qs
    ELSE LET full_sentence == Strip(FullSentence(data[1].spans))
             answer_text   == Strip(AnswerText(data[1].spans, page_underlines))
         IN  Append(qs, [type        |-> "Grammar/Reading",
                         number      |-> data[1].number,
                         question    |-> QuestionText(full_sentence, answer_text),
                         answer      |-> answer_text,
                         source_page |-> page_num,
                         dialogue    |-> <<>>,
                         choices     |-> <<>>])

\* the flush with the record put in front of the list
process_and_save_grammar_questionInFront(data, page_underlines, qs) ==
    IF data = None THEN qs
    ELSE LET full_sentence == Strip(FullSentence(data[1].spans))
             answer_text   == Strip(AnswerText(data[1].spans, page_underlines))
         IN  << [type        |-> "Grammar/Reading",
                 number      |-> data[1].number,
                 question    |-> QuestionText(full_sentence, answer_text),
                 answer      |-> answer_text,
                 source_page |-> data[1].page,
                 dialogue    |-> <<>>,
                 choices     |-> <<>>] >> \o qs

process_and_save_grammar_question(data, page_underlines, qs) ==
    IF data = None THEN qs
    ELSE LET full_sentence == Strip(FullSentence(data[1].spans))
             answer_text   == Strip(AnswerText(data[1].spans, page_underlines))
         IN  Append(qs, [type        |-> "Grammar/Reading",
                         number      |-> data[1].number,
                         question    |-> QuestionText(full_sentence, answer_text),
                         answer      |-> answer_text,
                         source_page |-> data[1].page,
                         dialogue    |-> <<>>,
                         choices     |-> <<>>])

\* line 205: the record a vocab line starts from
BlankRecord(page) ==
    [dialogue |-> <<>>, question |-> <<>>, choices |-> <<>>, answer |-> <<>>, source_page |-> page]

\* lines 218-266: the vocab branch for one line: the records to append, and
\* whether line 256 raised IndexError by indexing past the end of a split
VocabRecords(line, mondai, uls, page) ==
    LET line_text == LineText(line)
        q         == BlankRecord(page)
        emit(recs) == [raised |-> FALSE, recs |-> recs]
    IN  IF mondai = 3 /\ MatchOrdinal(line_text) > 0
        THEN LET full_sentence == Concat([i \in 1..Len(line) |-> line[i].text])
                 answer_text   == Strip(MarkedText(line, uls))
             IN  emit(<< [q EXCEPT !.question = QuestionText(full_sentence, answer_text),
                                   !.answer   = answer_text]
                         @@ [type   |-> "Fill-in-the-Blank",
                             number |-> Split(line_text, ".")[1]] >>)
        ELSE IF mondai \in {1, 2} /\ Contains(line_text, <<"LB">>)
        THEN LET match == KanjiSearch(line_text)
             IN  IF match = None THEN emit(<<>>)
                 ELSE emit(<< [q EXCEPT !.question = Strip(match[1][2]),
                                        !.answer   = Strip(match[1][3])]
                              @@ [type |-> "Vocabulary (Kanji/Kana)", number |-> match[1][1]] >>)
        ELSE IF mondai = 4 /\ Contains(line_text, <<"=">>)
        THEN LET parts == SplitOnce(line_text, "=")
             IN  IF Len(parts) # 2 THEN emit(<<>>)
                 ELSE IF Len(SplitOnce(parts[1], ".")) < 2 THEN [raised |-> TRUE, recs |-> <<>>]
                 ELSE emit(<< [q EXCEPT !.question = Strip(SplitOnce(parts[1], ".")[2]),
                                        !.answer   = Strip(parts[2])]
                              @@ [type |-> "Synonym", number |-> Strip(Split(parts[1], ".")[1])] >>)
        ELSE IF mondai = 5 /\ Contains(line_text, <<"ARROW">>)
        THEN LET parts == SplitOnce(line_text, "ARROW")
             IN  IF Len(parts) # 2 THEN emit(<<>>)
                 ELSE emit(<< [q EXCEPT !.question = Strip(parts[1]),
                                        !.answer   = Strip(parts[2])]
                              @@ [type |-> "Sentence Construction", number |-> Strip(parts[1])] >>)
        ELSE emit(<<>>)

\* the scan state the loop body reads and writes
ScanState == [section  |-> section,
              mondai   |-> current_mondai,
              data     |-> current_grammar_q_data,
              qs       |-> questions,
              raised   |-> FALSE]

\* lines 181-266: the loop body for one line, on page number page with the
\* page's underlines uls
MainLineOpensWithoutFlush(st, line, uls, page) ==
    LET line_text == LineText(line)
    IN  IF IsWatermarked(line_text) THEN st
        ELSE IF Contains(line_text, VocabMarker)
        THEN [st EXCEPT !.section = "vocab",
                        !.qs      = process_and_save_grammar_question(st.data, uls, st.qs),
                        !.data    = None]
        ELSE IF Contains(line_text, GrammarMarker)
        THEN [st EXCEPT !.section = "grammar"]
        ELSE IF MondaiMatch(line_text) # None
        THEN [st EXCEPT !.mondai = MondaiMatch(line_text)[1],
                        !.qs     = process_and_save_grammar_question(st.data, uls, st.qs),
                        !.data   = None]
        ELSE IF st.mondai = 0 \/ line_text = <<>> THEN st
        ELSE IF st.section = "grammar"
        THEN IF MatchOrdinal(line_text) > 0
             THEN [st EXCEPT !.data = Some([number |-> SubSeq(line_text, 1, MatchOrdinal(line_text)),
                                            spans  |-> <<line>>,
                                            page   |-> page])]
             ELSE IF st.data # None
             THEN [st EXCEPT !.data[1].spans = Append(@, line)]
             ELSE st
        ELSE LET out == VocabRecords(line, st.mondai, uls, page)
             IN  IF out.raised THEN [st EXCEPT !.raised = TRUE]
                 ELSE [st EXCEPT !.qs = st.qs \o out.recs]

MainLineVocabKeepsOpen(st, line, uls, page) ==
    LET line_text == LineText(line)
    IN  IF IsWatermarked(line_text) THEN st
        ELSE IF Contains(line_text, VocabMarker)
        THEN [st EXCEPT !.section = "vocab",
                        !.qs      = process_and_save_grammar_question(st.data, uls, st.qs)]
        ELSE IF Contains(line_text, GrammarMarker)
        THEN [st EXCEPT !.section = "grammar"]
        ELSE IF MondaiMatch(line_text) # None
        THEN [st EXCEPT !.mondai = MondaiMatch(line_text)[1],
                        !.qs     = process_and_save_grammar_question(st.data, uls, st.qs),
                        !.data   = None]
        ELSE IF st.mondai = 0 \/ line_text = <<>> THEN st
        ELSE IF st.section = "grammar"
        THEN IF MatchOrdinal(line_text) > 0
             THEN [st EXCEPT !.qs   = process_and_save_grammar_question(st.data, uls, st.qs),
                             !.data = Some([number |-> SubSeq(line_text, 1, MatchOrdinal(line_text)),
                                            spans  |-> <<line>>,
                                            page   |-> page])]
             ELSE IF st.data # None
             THEN [st EXCEPT !.data[1].spans = Append(@, line)]
             ELSE st
        ELSE LET out == VocabRecords(line, st.mondai, uls, page)
             IN  IF out.raised THEN [st EXCEPT !.raised = TRUE]
                 ELSE [st EXCEPT !.qs = st.qs \o out.recs]

MainLine(st, line, uls, page) ==
    LET line_text == LineText(line)
    IN  IF IsWatermarked(line_text) THEN st
        ELSE IF Contains(line_text, VocabMarker)
        THEN [st EXCEPT !.section = "vocab",
                        !.qs      = process_and_save_grammar_question(st.data, uls, st.qs),
                        !.data    = None]
        ELSE IF Contains(line_text, GrammarMarker)
        THEN [st EXCEPT !.section = "grammar"]
        ELSE IF MondaiMatch(line_text) # None
        THEN [st EXCEPT !.mondai = MondaiMatch(line_text)[1],
                        !.qs     = process_and_save_grammar_question(st.data, uls, st.qs),
                        !.data   = None]
        ELSE IF st.mondai = 0 \/ line_text = <<>> THEN st
        ELSE IF st.section = "grammar"
        THEN IF MatchOrdinal(line_text) > 0
             THEN [st EXCEPT !.qs   = process_and_save_grammar_question(st.data, uls, st.qs),
                             !.data = Some([number |-> SubSeq(line_text, 1, MatchOrdinal(line_text)),
                                            spans  |-> <<line>>,
                                            page   |-> page])]
             ELSE IF st.data # None
             THEN [st EXCEPT !.data[1].spans = Append(@, line)]
             ELSE st
        ELSE LET out == VocabRecords(line, st.mondai, uls, page)
             IN  IF out.raised THEN [st EXCEPT !.raised = TRUE]
                 ELSE [st EXCEPT !.qs = st.qs \o out.recs]

FinalFlushSkipped(data, uls, qs) == qs

\* line 268: the flush after the last page
FinalFlush(data, uls, qs) == process_and_save_grammar_question(data, uls, qs)

InitMain ==
    /\ prog = "main"
    /\ pc = "run"
    /\ IdleRefine
    /\ IdleMarked
    /\ IdleLLM
    /\ IdleScan
    /\ family \in Families
    /\ IdleListening

\* line 172-173: the loop over the pages moves to the next page
NextPage ==
    /\ prog \in {"main", "draft"}
    /\ pc = "run"
    /\ page_num < MaxPages
    /\ \E d \in PageDrawings : underlines' = get_underlines(d)
    /\ page_num' = page_num + 1
    /\ last' = None
    /\ UNCHANGED <<prog, pc, refinevars, markvars, llmvars, listenvars, section, current_mondai,
                   current_grammar_q_data, questions, nlines, family, span_underlines, span_pages>>

\* history: the underlines in force when each line of the accumulator data
\* was read, given the accumulator before the line and the page's underlines
HeldUnderlines(data, uls) ==
    IF data = None THEN <<>>
    ELSE IF data = current_grammar_q_data THEN span_underlines
    ELSE IF Len(data[1].spans) = 1 THEN <<uls>>
    ELSE Append(span_underlines, uls)

\* history: the page each line of the accumulator data was read on
HeldPages(data, page) ==
    IF data = None THEN <<>>
    ELSE IF data = current_grammar_q_data THEN span_pages
    ELSE IF Len(data[1].spans) = 1 THEN <<page>>
    ELSE Append(span_pages, page)

\* lines 180-266: the next line of the current page is read
ScanLine ==
    /\ prog = "main"
    /\ pc = "run"
    /\ page_num >= 1
    /\ nlines < MaxLines
    /\ \E line \in LinesOf(family) :
          LET st == MainLine(ScanState, line, underlines, page_num)
          IN  /\ section' = st.section
              /\ current_mondai' = st.mondai
              /\ current_grammar_q_data' = st.data
              /\ questions' = st.qs
              /\ pc' = IF st.raised THEN "aborted" ELSE "run"
              /\ last' = Some(line)
              /\ nlines' = nlines + 1
              /\ span_underlines' = HeldUnderlines(st.data, underlines)
              /\ span_pages' = HeldPages(st.data, page_num)
    /\ UNCHANGED <<prog, refinevars, markvars, llmvars, listenvars, page_num, underlines, family>>

\* line 268: the document ends; with no page at all (page_num = 0) the name
\* underlines is unbound and the NameError is caught at line 270
EndOfDocument ==
    /\ prog = "main"
    /\ pc = "run"
    /\ IF page_num = 0
       THEN pc' = "aborted" /\ UNCHANGED questions
       ELSE /\ questions' = FinalFlush(current_grammar_q_data, underlines, questions)
            /\ pc' = "done"
    /\ last' = None
    /\ UNCHANGED <<prog, refinevars, markvars, llmvars, listenvars, section, current_mondai,
                   current_grammar_q_data, page_num, underlines, nlines, family, span_underlines, span_pages>>

NextMain == NextPage \/ ScanLine \/ EndOfDocument

SpecMain == InitMain /\ [][NextMain]_vars

(***************************************************************************)
(* extract_grammar_vocab_questions (JLPT-pdf-csv-grammar.py 40-106), the   *)
(* draft extractor; its current_question_data is held in                   *)
(* current_grammar_q_data                                                  *)
(***************************************************************************)
\* process_and_save_question(data, page_underlines): questions after the call
process_and_save_question(data, page_underlines, qs) ==
    IF data = None THEN qs
    ELSE LET full_sentence == Strip(FullSentence(data[1].spans))
             answer_text   == Strip(AnswerText(data[1].spans, page_underlines))
         IN  Append(qs, [type        |-> data[1].type,
                         number      |-> data[1].number,
                         question    |-> Strip(SubOrdinal(full_sentence)),
                         answer      |-> answer_text,
                         source_page |-> data[1].page,
                         dialogue    |-> <<>>,
                         choices     |-> <<>>])

\* lines 72-102: the loop body for one line
DraftLine(st, line, uls, page) ==
    LET line_text == LineText(line)
    IN  IF IsWatermarked(line_text) THEN st
        ELSE IF Contains(line_text, VocabMarker)
        THEN [st EXCEPT !.section = "vocab",
                        !.qs      = process_and_save_question(st.data, uls, st.qs),
                        !.data    = None]
        ELSE IF Contains(line_text, GrammarMarker)
        THEN [st EXCEPT !.section = "grammar"]
        ELSE IF MondaiMatch(line_text) # None
        THEN [st EXCEPT !.mondai = MondaiMatch(line_text)[1],
                        !.qs     = process_and_save_question(st.data, uls, st.qs),
                        !.data   = None]
        ELSE IF st.mondai = 0 \/ line_text = <<>> THEN st
        ELSE IF MatchOrdinal(line_text) > 0
        THEN [st EXCEPT !.qs   = process_and_save_question(st.data, uls, st.qs),
                        !.data = Some([type   |-> IF st.section = "grammar"
                                                  THEN "Grammar/Reading"
                                                  ELSE "Fill-in-the-Blank",
                                       number |-> SubSeq(line_text, 1, MatchOrdinal(line_text)),
                                       spans  |-> <<line>>,
                                       page   |-> page])]
        ELSE IF st.data # None
        THEN [st EXCEPT !.data[1].spans = Append(@, line)]
        ELSE st

DraftFinalFlushSkipped(data, uls, qs) == qs

\* line 103: the flush after the last page
DraftFinalFlush(data, uls, qs) == process_and_save_question(data, uls, qs)

InitDraft ==
    /\ prog = "draft"
    /\ pc = "run"
    /\ IdleRefine
    /\ IdleMarked
    /\ IdleLLM
    /\ IdleScan
    /\ family = "grammar"
    /\ IdleListening

\* lines 71-102: the next line of the current page is read
DraftScanLine ==
    /\ prog = "draft"
    /\ pc = "run"
    /\ page_num >= 1
    /\ nlines < MaxLines
    /\ \E line \in LinesOf("grammar") :
          LET st == DraftLine(ScanState, line, underlines, page_num)
          IN  /\ section' = st.section
              /\ current_mondai' = st.mondai
              /\ current_grammar_q_data' = st.data
              /\ questions' = st.qs
              /\ last' = Some(line)
              /\ nlines' = nlines + 1
              /\ span_underlines' = HeldUnderlines(st.data, underlines)
              /\ span_pages' = HeldPages(st.data, page_num)
    /\ UNCHANGED <<prog, pc, refinevars, markvars, llmvars, listenvars, page_num, underlines, family>>

\* line 103: the document ends; with no page at all the name underlines is
\* unbound and the NameError is caught at line 104
DraftEndOfDocument ==
    /\ prog = "draft"
    /\ pc = "run"
    /\ IF page_num = 0
       THEN pc' = "aborted" /\ UNCHANGED questions
       ELSE /\ questions' = DraftFinalFlush(current_grammar_q_data, underlines, questions)
            /\ pc' = "done"
    /\ last' = None
    /\ UNCHANGED <<prog, refinevars, markvars, llmvars, listenvars, section, current_mondai,
                   current_grammar_q_data, page_num, underlines, nlines, family, span_underlines, span_pages>>

NextDraft == NextPage \/ DraftScanLine \/ DraftEndOfDocument

SpecDraft == InitDraft /\ [][NextDraft]_vars

(***************************************************************************)
(* extract_listening_questions (JLPT-pdf-csv.py 6-66)                      *)
(***************************************************************************)
ClerkLine == <<"TEN", "IN", "COLON", "i", "ra", "xtu", "si", "xya", "i", "ma", "se">>

WhatLine == <<"NANI", "wo", "KA", "i", "ma", "su", "ka", "MARU">>

\* the blocks a page can hold, as page.get_text("blocks") returns their text
Blocks ==
    {  <<"1", "BAN", "NL">>,                              \* a label on its own
       ClerkLine \o <<"NL">>,
       WhatLine \o <<"NL">>,
       <<"2", "BAN", "NL", "o", "NL">>,                   \* a label and a second line
       <<"3", "BAN", "x", "NL", "y", "NL">>,              \* text after the label on its line
       <<"M", "o", "g", "i", "NL">>,                      \* watermark
       <<"4", "BAN", "M", "o", "g", "i", "NL">>,          \* watermark and label
       <<"p", "NL", "q", "NL">>,                          \* two lines
       <<"NL">>                                           \* white space only
    }

\* history only: the text holds one of the watermark texts
HasWatermark(t) ==
    \E wt \in WatermarkTexts : \E i \in 1..Len(t) :
        i + Len(wt) - 1 <= Len(t) /\ \A k \in 1..Len(wt) : t[i + k - 1] = wt[k]

\* history only: the length of the label (digits, then BAN) the text starts with, 0 if none
LabelLen(t) ==
    IF \E n \in 1..Len(t) : t[n] = "BAN" /\ n > 1 /\ \A k \in 1..(n - 1) : t[k] \in Digits
    THEN CHOOSE n \in 1..Len(t) : t[n] = "BAN" /\ n > 1 /\ \A k \in 1..(n - 1) : t[k] \in Digits
    ELSE 0

StartsWithLabel(t) == LabelLen(t) > 0

\* question_start_re.match(block_text), r'^\d+BAN'
StartMatch(s) ==
    /\ DigitRun(s, 1) >= 1
    /\ Len(s) > DigitRun(s, 1)
    /\ s[DigitRun(s, 1) + 1] = "BAN"

\* the flush with the text split at its first newline only
FlushListeningSplitOnce(data, dialogue, qs) ==
    IF data = None THEN qs
    ELSE LET dialogue_parts == SplitOnce(Strip(dialogue), "NL")
         IN  Append(qs,
                IF Len(dialogue_parts) > 1
                THEN data[1] @@ [question |-> dialogue_parts[2], dialogue |-> dialogue_parts[1]]
                ELSE data[1] @@ [question |-> Strip(dialogue), dialogue |-> <<>>])

\* lines 33-41 and 52-60: the open question is completed and appended
FlushListening(data, dialogue, qs) ==
    IF data = None THEN qs
    ELSE LET dialogue_parts == Split(Strip(dialogue), "NL")
         IN  Append(qs,
                IF Len(dialogue_parts) > 1
                THEN data[1] @@ [question |-> dialogue_parts[Len(dialogue_parts)],
                                 dialogue |-> Join(SubSeq(dialogue_parts, 1,
                                                          Len(dialogue_parts) - 1), "NL")]
                ELSE data[1] @@ [question |-> Strip(dialogue), dialogue |-> <<>>])

\* the scan state the loop body reads and writes
ListeningState == [qs |-> questions, data |-> current_question_data, dialogue |-> full_dialogue]

\* lines 27-50: the loop body for one block
ListeningBlock(st, b, page) ==
    LET block_text == Strip(b)
    IN  IF IsWatermarked(block_text) THEN st
        ELSE IF StartMatch(block_text)
        THEN [qs       |-> FlushListening(st.data, st.dialogue, st.qs),
              data     |-> Some([type        |-> "Listening",
                                 number      |-> Split(block_text, "NL")[1],
                                 source_page |-> page]),
              dialogue |-> LET parts == SplitOnce(block_text, "NL")
                           IN  parts[Len(parts)] \o <<"NL">>]
        ELSE IF st.data # None
        THEN [st EXCEPT !.dialogue = @ \o block_text \o <<"NL">>]
        ELSE st

ListeningFinalFlushSkipped(data, dialogue, qs) == qs

\* lines 52-60: the flush after the last page
ListeningFinalFlush(data, dialogue, qs) == FlushListening(data, dialogue, qs)

InitListening ==
    /\ prog = "listening"
    /\ pc = "run"
    /\ IdleRefine
    /\ IdleMarked
    /\ IdleLLM
    /\ IdleScan
    /\ family = "grammar"
    /\ IdleListening

\* line 24: the loop over the pages moves to the next page
ListeningNextPage ==
    /\ prog = "listening"
    /\ pc = "run"
    /\ page_num < MaxPages
    /\ page_num' = page_num + 1
    /\ last' = None
    /\ UNCHANGED <<prog, pc, refinevars, markvars, llmvars, listenvars, section, current_mondai,
                   current_grammar_q_data, questions, underlines, nlines, family, span_underlines, span_pages>>

\* lines 26-50: the next block of the current page is read
ScanBlock ==
    /\ prog = "listening"
    /\ pc = "run"
    /\ page_num >= 1
    /\ nlines < MaxLines
    /\ \E b \in Blocks :
          LET st == ListeningBlock(ListeningState, b, page_num)
          IN  /\ questions' = st.qs
              /\ current_question_data' = st.data
              /\ full_dialogue' = st.dialogue
              /\ last' = Some(b)
              /\ open_blocks' = IF HasWatermark(Strip(b)) THEN open_blocks
                                ELSE IF StartsWithLabel(Strip(b)) THEN <<b>>
                                ELSE IF open_blocks # <<>> THEN Append(open_blocks, b)
                                ELSE open_blocks
              /\ nlines' = nlines + 1
    /\ UNCHANGED <<prog, pc, refinevars, markvars, llmvars, section, current_mondai,
                   current_grammar_q_data, page_num, underlines, family, span_underlines, span_pages>>

\* lines 52-60: the document ends
ListeningEndOfDocument ==
    /\ prog = "listening"
    /\ pc = "run"
    /\ questions' = ListeningFinalFlush(current_question_data, full_dialogue, questions)
    /\ pc' = "done"
    /\ last' = None
    /\ UNCHANGED <<prog, refinevars, markvars, llmvars, listenvars, section, current_mondai,
                   current_grammar_q_data, page_num, underlines, nlines, family, span_underlines, span_pages>>

NextListening == ListeningNextPage \/ ScanBlock \/ ListeningEndOfDocument

SpecListening == InitListening /\ [][NextListening]_vars

\* the three document extractors together
InitExtract == InitMain \/ InitDraft \/ InitListening

NextExtract == NextMain \/ DraftScanLine \/ DraftEndOfDocument \/ NextListening

SpecExtract == InitExtract /\ [][NextExtract]_vars

(***************************************************************************)
(* The classifier run on its own: get_underlines on a page's drawings,     *)
(* then is_span_marked on one span (JLPT-pdf-csv.py 84-129)                *)
(***************************************************************************)
\* spans whose horizontal midpoint is 50 or 50.5 and whose bottom edge is
\* 100; plain, italic (bit 2), bold (bit 16), bold italic
MarkSpans ==
    { [text |-> <<"a">>, bbox |-> Rect(x[1], 90, x[2], 100), flags |-> f] :
        x \in {<<40, 60>>, <<41, 60>>}, f \in {0, 2, 16, 18} }

\* thin bars at several heights and horizontal extents, a bar drawn right to
\* left, a bar of height 2, a thick bar, an empty-width bar, lines flat and steep, a curve
MarkItems ==
    { RectItem(x[1], y0, x[2], y0 + 1) :
        x \in {<<40, 60>>, <<61, 80>>}, y0 \in {99, 100, 102, 103, 104, 105} }
    \cup
    {  RectItem(50, 102, 60, 103),
       RectItem(40, 102, 60, 104),
       RectItem(40, 102, 60, 105),
       RectItem(40, 102, 40, 103),
       RectItem(60, 102, 40, 103),
       LineItem(40, 102, 60, 102),
       LineItem(40, 102, 60, 104),
       LineItem(40, 102, 60, 105),
       LineItem(40, 104, 60, 102),
       CurveItem(40, 102, 60, 102) }

InitMarked ==
    /\ prog = "marked"
    /\ pc = "run"
    /\ IdleRefine
    /\ IdleScan
    /\ IdleListening
    /\ IdleLLM
    /\ family = "grammar"
    /\ probe \in MarkSpans
    /\ \E n \in 0..MaxItems : drawings \in [1..n -> MarkItems]
    /\ marked = None

\* line 173: underlines = get_underlines(page)
GetUnderlines ==
    /\ prog = "marked"
    /\ pc = "run"
    /\ underlines' = get_underlines(drawings)
    /\ pc' = "page"
    /\ UNCHANGED <<prog, refinevars, listenvars, llmvars, markvars, section, current_mondai,
                   current_grammar_q_data, questions, page_num, nlines, last, family, span_underlines, span_pages>>

\* line 142: is_span_marked(span, page_underlines)
Classify ==
    /\ prog = "marked"
    /\ pc = "page"
    /\ marked' = Some(is_span_marked(probe, underlines))
    /\ pc' = "done"
    /\ UNCHANGED <<prog, refinevars, listenvars, llmvars, probe, drawings, scanvars>>

NextMarked == GetUnderlines \/ Classify

SpecMarked == InitMarked /\ [][NextMarked]_vars

(***************************************************************************)
(* extract_questions_with_llm (JLPT-pdf-csv-llm.py 18-25, 64-112)          *)
(***************************************************************************)
\* three backticks, each written "TICK"
Fence == <<"TICK", "TICK", "TICK">>

\* re.search of line 21 (fence, optional "json", anything, fence; DOTALL):
\* Some(group 2), or None. The search starts at the first fence, the
\* optional group takes "json" when it follows, and the greedy group 2 ends
\* at the last fence.
FenceSearch(text) ==
    LET open == Find(text, Fence)
        closes == {i \in 1..(Len(text) - 2) : SubSeq(text, i, i + 2) = Fence /\ i >= open + 3}
    IN  IF open = 0 \/ closes = {} THEN None
        ELSE LET tagged == SubSeq(text, open + 3, open + 6) = <<"j", "s", "o", "n">>
                           /\ MaxOf(closes) >= open + 7
                 from   == IF tagged THEN open + 7 ELSE open + 3
             IN  Some(SubSeq(text, from, MaxOf(closes) - 1))

\* clean_llm_response(text)
clean_llm_response(text) ==
    IF FenceSearch(text) # None THEN Strip(FenceSearch(text)[1]) ELSE Strip(text)

\* json.loads(json_text) on the texts the service is taken to answer with: an
\* array of objects "R" gives its length, a number gives kind "number",
\* anything else is a JSONDecodeError
json_loads(doc) ==
    IF doc = <<"[", "]">> THEN [kind |-> "list", len |-> 0]
    ELSE IF doc = <<"[", "R", "]">> THEN [kind |-> "list", len |-> 1]
    ELSE IF doc = <<"[", "R", ",", "R", "]">> THEN [kind |-> "list", len |-> 2]
    ELSE IF doc = <<"7">> THEN [kind |-> "number", len |-> 0]
    ELSE [kind |-> "JSONDecodeError", len |-> 0]

\* what response.text can be
ResponseTexts ==
    {  <<"[", "]">>,
       <<"[", "R", "]">>,
       Fence \o <<"j", "s", "o", "n", "NL", "[", "R", ",", "R", "]", "NL">> \o Fence,
       Fence \o <<"NL", "[", "R", "]", "NL">> \o Fence,
       Fence \o <<"j", "s", "NL", "[", "R", "]", "NL">> \o Fence,
       <<" ", "[", "]", "NL">>,
       <<"S", "o", "r", "r", "y">>,
       Fence \o <<"[", "R", "]">>,
       <<"7">> }

\* what one page can bring: no text left after cleaning, a service call that
\* raises, a response whose .text raises, or a response text
PageOutcomes ==
    {[kind |-> "blank", text |-> <<>>],
     [kind |-> "call_raises", text |-> <<>>],
     [kind |-> "text_raises", text |-> <<>>]}
    \cup {[kind |-> "response", text |-> t] : t \in ResponseTexts}

\* lines 99-107 with the call of line 97 before them: the fate of the page
\* ("skip", "extend", "caught" by the inner handler, or "raise" to line 109)
\* and the number of records it adds
PageFate(o) ==
    IF o.kind = "blank" THEN [fate |-> "skip", add |-> 0]
    ELSE IF o.kind = "call_raises" THEN [fate |-> "raise", add |-> 0]
    ELSE IF o.kind = "text_raises" THEN [fate |-> "raise", add |-> 0]
    ELSE LET parsed == json_loads(clean_llm_response(o.text))
         IN  IF parsed.kind = "JSONDecodeError" THEN [fate |-> "caught", add |-> 0]
             ELSE IF parsed.kind = "number" THEN [fate |-> "raise", add |-> 0]
             ELSE IF parsed.len > 0 THEN [fate |-> "extend", add |-> parsed.len]
             ELSE [fate |-> "skip", add |-> 0]

InitLLM ==
    /\ prog = "llm"
    /\ pc = "run"
    /\ IdleRefine
    /\ IdleScan
    /\ IdleListening
    /\ IdleMarked
    /\ family = "grammar"
    /\ outcomes = <<>>
    /\ json_text = None

\* lines 82-107: the next page is sent to the service and its answer handled
LLMPage ==
    /\ prog = "llm"
    /\ pc = "run"
    /\ page_num < MaxPages
    /\ page_num' = page_num + 1
    /\ \E o \in PageOutcomes :
          /\ outcomes' = Append(outcomes, o)
          /\ json_text' = IF o.kind = "response" THEN Some(clean_llm_response(o.text)) ELSE None
          /\ questions' = questions \o [i \in 1..PageFate(o).add |->
                                          [object |-> "R", from_page |-> page_num + 1]]
          /\ pc' = IF PageFate(o).fate = "raise" THEN "aborted" ELSE "run"
    /\ UNCHANGED <<prog, refinevars, listenvars, markvars, section, current_mondai,
                   current_grammar_q_data, underlines, nlines, last, family, span_underlines, span_pages>>

\* line 112: the loop is over and all_questions is returned
LLMEndOfDocument ==
    /\ prog = "llm"
    /\ pc = "run"
    /\ pc' = "done"
    /\ UNCHANGED <<prog, refinevars, listenvars, markvars, llmvars, scanvars>>

NextLLM == LLMPage \/ LLMEndOfDocument

SpecLLM == InitLLM /\ [][NextLLM]_vars

(***************************************************************************)
(* C1  refinement run on its own output                                    *)
(***************************************************************************)
SecondPassDone == prog = "refine" /\ passes = 2 /\ pc = "done"

\* C1: for every record, running the refinement on its own
\* output changes nothing, refine(refine(r)) = refine(r).
C1_Idempotent ==
    SecondPassDone => outfile = infile

(***************************************************************************)
(* C2  emitted records are complete                                        *)
(***************************************************************************)
\* C2: every record emitted by the listening scan and by the grammar/vocab
\* scan has a non-empty type, a non-empty number and a non-empty question.
C2_RecordsComplete ==
    prog \in {"main", "listening"} =>
        \A i \in 1..Len(questions) :
            /\ questions[i].type # ""
            /\ questions[i].number # <<>>
            /\ questions[i].question # <<>>

(***************************************************************************)
(* C3  flush at the end of the document                                    *)
(***************************************************************************)
\* the step that ends the scan after the last page (a line that raises also
\* leaves "run", but it is a line read: nlines grows)
EndStep == pc = "run" /\ pc' # "run" /\ nlines' = nlines

NewRecord == questions'[Len(questions')]

\* C3: when the scan reaches the end of the document while an accumulator is
\* open (grammar/vocab scan of either file, or listening scan), the scan
\* completes and exactly one more record is emitted, which carries the
\* number and the page of that accumulator.
C3_EndOfDocumentFlush ==
    [][ EndStep =>
          /\ (prog \in {"main", "draft"} /\ current_grammar_q_data # None) =>
                /\ pc' = "done"
                /\ Len(questions') = Len(questions) + 1
                /\ SubSeq(questions', 1, Len(questions)) = questions
                /\ NewRecord.number = current_grammar_q_data[1].number
                /\ NewRecord.source_page = current_grammar_q_data[1].page
          /\ (prog = "listening" /\ current_question_data # None) =>
                /\ pc' = "done"
                /\ Len(questions') = Len(questions) + 1
                /\ SubSeq(questions', 1, Len(questions)) = questions
                /\ NewRecord.number = current_question_data[1].number
                /\ NewRecord.source_page = current_question_data[1].source_page
      ]_vars

\* a document that ended on an open grammar sentence whose record is the last one
C3_Witness ==
    /\ prog = "main"
    /\ pc = "done"
    /\ current_grammar_q_data # None
    /\ Len(questions) >= 1
    /\ questions[Len(questions)].number = current_grammar_q_data[1].number
    /\ last = None

(***************************************************************************)
(* C4  a failure on one line                                               *)
(***************************************************************************)
\* C4: a failure local to one line never aborts the grammar/vocab scan: once
\* lines are being read the scan is never abandoned.
C4_LineFailureDoesNotAbort ==
    (prog = "main" /\ nlines > 0) => pc # "aborted"

(***************************************************************************)
(* C6  watermarked lines and blocks                                        *)
(***************************************************************************)
\* the text of the line or block read by the latest step
LastText ==
    IF prog = "listening" THEN Strip(last[1]) ELSE LineText(last[1])

\* C6: a line or block whose text holds a watermark text changes nothing:
\* section, mondai, the open accumulator and the emitted records stay as
\* they were.
C6_WatermarkSkipped ==
    [][ (last' # None /\ nlines' = nlines + 1 /\ \E t \in {LastText'} : HasWatermark(t))
            => UNCHANGED <<section, current_mondai, current_grammar_q_data, questions,
                           current_question_data, full_dialogue, pc>>
      ]_vars

\* a watermarked line that also holds the vocab marker and an ordinal was
\* read in the grammar section while a sentence was open
C6_Witness ==
    /\ prog = "main"
    /\ last # None
    /\ \E t \in {LastText} : HasWatermark(t) /\ Contains(t, VocabMarker)
    /\ section = "grammar"
    /\ current_grammar_q_data # None

(***************************************************************************)
(* C7  the listening example                                               *)
(***************************************************************************)
LabelOnly(b) == LabelLen(Strip(b)) = Len(Strip(b)) /\ Strip(b) # <<>>

SingleLine(b) == Strip(b) # <<>> /\ \A i \in 1..Len(Strip(b)) : Strip(b)[i] # "NL"

\* C7: a start block that is exactly a label L, followed by n >= 1
\* single-line blocks b1..bn up to the end of the document, gives the record
\* number = L, question = bn, dialogue = b1..b(n-1) joined by newline.
C7_LabelNotInDialogue ==
    ( /\ prog = "listening"
      /\ pc = "done"
      /\ Len(open_blocks) >= 2
      /\ LabelOnly(open_blocks[1])
      /\ \A i \in 2..Len(open_blocks) : SingleLine(open_blocks[i]) )
    =>
    LET n == Len(open_blocks) - 1
        r == questions[Len(questions)]
    IN  /\ r.number = Strip(open_blocks[1])
        /\ r.question = Strip(open_blocks[n + 1])
        /\ r.dialogue = Join([i \in 1..(n - 1) |-> Strip(open_blocks[i + 1])], "NL")

(***************************************************************************)
(* C8  the grammar example                                                 *)
(***************************************************************************)
\* the open accumulator holds the example sentence alone and, with the
\* underlines in force, its middle span is the only marked one
SentenceOpenMiddleMarked ==
    /\ prog = "main"
    /\ current_grammar_q_data # None
    /\ current_grammar_q_data[1].spans = <<SentenceLine>>
    /\ is_span_marked(SentenceLine[2], underlines)
    /\ ~is_span_marked(SentenceLine[1], underlines)
    /\ ~is_span_marked(SentenceLine[3], underlines)

SentenceFlushed ==
    /\ SentenceOpenMiddleMarked
    /\ Len(questions') = Len(questions) + 1
    /\ NewRecord.type = "Grammar/Reading"

Gakusei == <<"GA", "KU", "SE", "I">>

\* C8 (as claimed): the record of the example sentence has
\* question = "watasi<IS>ha (______)  desu<MARU>" and answer = "gakusei".
C8_ExampleAsClaimed ==
    [][ SentenceFlushed =>
          /\ NewRecord.answer = Gakusei
          /\ NewRecord.question =
                <<"WA", "TA", "SI", "IS", "HA">> \o Placeholder \o <<" ", "DE", "SU", "MARU">>
      ]_vars

\* C8 (amended): the record of the example sentence has answer = "gakusei"
\* and question = "watasi<IS>ha<IS> (______) <IS>desu<MARU>": the ordinal is
\* removed and the ideographic spaces on both sides of the answer stay.
C8_ExampleAsComputed ==
    [][ SentenceFlushed =>
          /\ NewRecord.answer = Gakusei
          /\ NewRecord.question =
                <<"WA", "TA", "SI", "IS", "HA", "IS">> \o Placeholder \o <<"IS", "DE", "SU", "MARU">>
      ]_vars

\* the example sentence was flushed at the end of the document
C8_Witness ==
    /\ prog = "main"
    /\ pc = "done"
    /\ current_grammar_q_data # None
    /\ current_grammar_q_data[1].spans = <<SentenceLine>>
    /\ Len(questions) >= 1
    /\ questions[Len(questions)].answer = Gakusei
    /\ questions[Len(questions)].number = <<"1">>

(***************************************************************************)
(* C5  a failing page of the LLM extraction                                *)
(***************************************************************************)
LatestOutcome == outcomes[Len(outcomes)]

\* the page's service call failed, or its response is no usable JSON
PageFailed(o) ==
    \/ o.kind = "call_raises"
    \/ o.kind = "response" /\ json_loads(clean_llm_response(o.text)).kind = "JSONDecodeError"

\* C5: a failure on page k (the service call fails, or the response is not
\* usable JSON) adds no record, keeps the records of the pages before k and
\* leaves the loop running for the pages after k.
C5_PageFailureIsolated ==
    [][ (prog = "llm" /\ Len(outcomes') = Len(outcomes) + 1 /\ PageFailed(LatestOutcome'))
            => (questions' = questions /\ pc' = "run")
      ]_vars

(***************************************************************************)
(* C9, C10  is_span_marked                                                 *)
(***************************************************************************)
Classified == prog = "marked" /\ pc = "done"

\* C9: for every span with the bold bit (16) set and every underline set,
\* the empty one and ones with no underline near the span included,
\* is_span_marked returns true.
C9_BoldIsMarked ==
    (Classified /\ (probe.flags \div 16) % 2 = 1) => marked = Some(TRUE)

\* a bold span classified against an empty underline set
C9_Witness ==
    /\ Classified
    /\ probe.flags = 16
    /\ underlines = <<>>
    /\ marked = Some(TRUE)

\* r lies under the span: twice the midpoint m is x0 + x1, b is the bottom edge y1
Under(sp, r) ==
    /\ 2 * r.x0 <= sp.bbox.x0 + sp.bbox.x1
    /\ sp.bbox.x0 + sp.bbox.x1 <= 2 * r.x1
    /\ r.y0 - sp.bbox.y1 \in 0..3

ExampleSpan(sp) == sp.bbox.x0 + sp.bbox.x1 = 100 /\ sp.bbox.y1 = 100 /\ sp.flags = 0

\* C10: for a non-bold span with midpoint m and bottom edge b,
\* is_span_marked returns true exactly when some underline r has
\* r.x0 <= m <= r.x1 and 0 <= r.y0 - b < 4. With b = 100 and m = 50 an
\* underline over x in [40,60] with top 102 marks the span, one with top 105
\* does not, and one over x in [61,80] does not.
C10_UnderlineRule ==
    Classified =>
        /\ (probe.flags \div 16) % 2 = 0 =>
              (marked = Some(TRUE) <=> \E i \in 1..Len(underlines) : Under(probe, underlines[i]))
        /\ (ExampleSpan(probe) /\ underlines = <<Rect(40, 102, 60, 103)>>) => marked = Some(TRUE)
        /\ (ExampleSpan(probe) /\ underlines = <<Rect(40, 105, 60, 106)>>) => marked = Some(FALSE)
        /\ (ExampleSpan(probe) /\ underlines = <<Rect(61, 102, 80, 103)>>) => marked = Some(FALSE)

\* the example span was marked by its second underline, the first lying 4 below
C10_Witness ==
    /\ Classified
    /\ ExampleSpan(probe)
    /\ underlines = <<Rect(40, 104, 60, 105), Rect(40, 102, 60, 103)>>
    /\ marked = Some(TRUE)

(***************************************************************************)
(* C11  get_underlines                                                     *)
(***************************************************************************)
\* the claimed test of one primitive: a line whose endpoints differ
\* vertically by at most 2, or a rectangle of height at most 2 and width
\* strictly positive (a rectangle with y1 < y0 or x1 < x0 has height or width 0)
Qualifies(item) ==
    \/ item.cmd = "l" /\ item.rect.y0 - item.rect.y1 \in -2..2
    \/ item.cmd = "re" /\ item.rect.y1 - item.rect.y0 <= 2 /\ item.rect.x1 > item.rect.x0

\* how many of the first i primitives qualify
QualifiedUpTo(i) == Cardinality({j \in 1..i : Qualifies(drawings[j])})

UnderlinesComputed == prog = "marked" /\ pc \in {"page", "done"}

\* C11: get_underlines returns a rectangle for exactly the primitives that
\* qualify, one each and in their order, and nothing for a primitive that
\* fails its check or is of another shape.
C11_ExactlyTheQualifying ==
    UnderlinesComputed =>
        /\ Len(underlines) = QualifiedUpTo(Len(drawings))
        /\ \A i \in 1..Len(drawings) :
              Qualifies(drawings[i]) => underlines[QualifiedUpTo(i)] = drawings[i].rect

\* an empty-width bar was dropped and a line falling by 2 was kept
C11_Witness ==
    /\ UnderlinesComputed
    /\ drawings = <<RectItem(40, 102, 40, 103), LineItem(40, 104, 60, 102)>>
    /\ underlines = <<Rect(40, 104, 60, 102)>>

(***************************************************************************)
(* C12  what the refinement leaves alone                                   *)
(***************************************************************************)
\* a run of the refinement has just written the final csv from infile
PassDone == prog = "refine" /\ pc = "done" /\ passes >= 1

\* C12: the refinement writes one output row per input row, in the same
\* order and under the same header; every field other than question is as
\* it was read, and question differs only in rows whose stripped answer is
\* non-empty and occurs in question.
C12_RefineFrame ==
    PassDone =>
        /\ outheader = Some(fieldnames)
        /\ Len(outfile) = Len(infile)
        /\ \A i \in 1..Len(infile) :
              /\ outfile[i].answer = infile[i].answer
              /\ outfile[i].type = infile[i].type
              /\ outfile[i].question # infile[i].question =>
                    /\ Strip(infile[i].answer) # <<>>
                    /\ Contains(infile[i].question, Strip(infile[i].answer))

\* two rows under a header that puts answer first: the first row's question
\* was rewritten and its answer kept its leading space, the second row is
\* as it was read
C12_Witness ==
    /\ PassDone
    /\ fieldnames = <<"answer", "type", "question">>
    /\ Len(infile) = 2
    /\ infile[1].answer = <<" ", "_">>
    /\ outfile[1].question # infile[1].question
    /\ outfile[1].answer = <<" ", "_">>
    /\ infile[2].answer = <<"a">>
    /\ outfile[2] = infile[2]

(***************************************************************************)
(* C13  clean_llm_response                                                 *)
(***************************************************************************)
\* language tags of an opening fence: none, "json", and another one
FenceTags == {<<>>, <<"j", "s", "o", "n">>, <<"j", "s">>}

\* JSON texts a response may wrap
WrappedTexts == {<<"[", "]">>, <<"[", "R", "]">>, <<"[", "R", ",", "R", "]">>}

\* a response that wraps J in a fenced code block opened with the tag
Wrapped(tag, J) == Fence \o tag \o <<"NL">> \o J \o <<"NL">> \o Fence

ResponseCleaned ==
    prog = "llm" /\ outcomes # <<>> /\ LatestOutcome.kind = "response"

\* C13: clean_llm_response of a response that wraps a JSON text J in a
\* fenced code block, opened with or without a language tag, is J without
\* surrounding white space; of a response with no fence it is the response
\* stripped.
C13_FenceStripped ==
    ResponseCleaned =>
        /\ \A tag \in FenceTags : \A J \in WrappedTexts :
              LatestOutcome.text = Wrapped(tag, J) => json_text = Some(Strip(J))
        /\ ~Contains(LatestOutcome.text, Fence) => json_text = Some(Strip(LatestOutcome.text))

(***************************************************************************)
(* C14  the underlines a span is judged against                            *)
(***************************************************************************)
\* the texts of the marked spans of the lines, each line judged against
\* the underlines of the page it was read on
RECURSIVE AnswerByPage(_, _)
AnswerByPage(lines, ulss) ==
    IF lines = <<>> THEN <<>>
    ELSE MarkedText(Head(lines), Head(ulss)) \o AnswerByPage(Tail(lines), Tail(ulss))

\* the step emits the Grammar/Reading record of the open accumulator
GrammarFlushed ==
    /\ prog = "main"
    /\ current_grammar_q_data # None
    /\ Len(questions') = Len(questions) + 1
    /\ NewRecord.type = "Grammar/Reading"

\* C14: the marked spans of an emitted Grammar/Reading record are decided
\* against the underlines of the page each span lies on, also when the
\* accumulator is flushed while a later page is being scanned.
C14_OwnPageUnderlines ==
    [][ GrammarFlushed =>
          NewRecord.answer = Strip(AnswerByPage(current_grammar_q_data[1].spans, span_underlines))
      ]_vars

(***************************************************************************)
(* C15  answer and question of a Grammar/Reading record                    *)
(***************************************************************************)
\* the spans of the lines, one after the other
RECURSIVE Flatten(_)
Flatten(lines) ==
    IF lines = <<>> THEN <<>> ELSE Head(lines) \o Flatten(Tail(lines))

\* the texts of the marked spans of the open accumulator, concatenated
MarkedConcat ==
    LET all  == Flatten(current_grammar_q_data[1].spans)
        kept == SelectSeq(all, LAMBDA sp : is_span_marked(sp, underlines))
    IN  Concat([i \in 1..Len(kept) |-> kept[i].text])

\* the full sentence of the open accumulator: the texts of its lines, joined
\* by newline, without surrounding white space
WholeSentence ==
    LET lines == current_grammar_q_data[1].spans
    IN  Strip(Join([i \in 1..Len(lines) |->
                      Concat([k \in 1..Len(lines[i]) |-> lines[i][k].text])], "NL"))

\* sentence with the first occurrence of answer replaced by the placeholder
\* when answer is non-empty and occurs in it, sentence otherwise
Blanked(sentence, answer) ==
    IF answer # <<>> /\ Contains(sentence, answer)
    THEN ReplaceFirst(sentence, answer, Placeholder)
    ELSE sentence

\* C15 (as claimed): answer is the concatenation of the texts of the marked
\* spans; question is the full sentence with the first occurrence of answer
\* replaced by the placeholder (unchanged when answer is empty or absent),
\* with the leading ordinal removed.
C15_AnswerAndQuestion ==
    [][ GrammarFlushed =>
          /\ NewRecord.answer = MarkedConcat
          /\ NewRecord.question = SubOrdinal(Blanked(WholeSentence, MarkedConcat))
      ]_vars

\* C15 (amended): answer is the concatenation of the texts of the marked
\* spans without surrounding white space; question is the full sentence
\* with the first occurrence of answer replaced by the placeholder
\* (unchanged when answer is empty or absent), then the leading ordinal
\* removed, then surrounding white space removed.
C15_AnswerAndQuestionStripped ==
    [][ GrammarFlushed =>
          /\ NewRecord.answer = Strip(MarkedConcat)
          /\ NewRecord.question =
                Strip(SubOrdinal(Blanked(WholeSentence, Strip(MarkedConcat))))
      ]_vars

\* a record made of an ordinal line and a continuation whose marked span
\* ends the sentence in white space: the answer came out stripped and the
\* placeholder lost its closing space
C15_Witness ==
    /\ prog = "main"
    /\ pc = "done"
    /\ current_grammar_q_data # None
    /\ current_grammar_q_data[1].spans = <<OrdinalOnlyLine, PlainLine>>
    /\ questions # <<>>
    /\ questions[Len(questions)].answer = <<"u">>
    /\ questions[Len(questions)].question = <<"t", " ", "(", "_", "_", "_", "_", "_", "_", ")">>

(***************************************************************************)
(* C16  a mondai label                                                     *)
(***************************************************************************)
\* the step reads one more line in the main scan
LineRead == prog = "main" /\ pc = "run" /\ last' # None /\ nlines' = nlines + 1

\* questions' is questions and the record of the accumulator that was open
AccumulatorEmitted ==
    /\ Len(questions') = Len(questions) + 1
    /\ SubSeq(questions', 1, Len(questions)) = questions
    /\ NewRecord.type = "Grammar/Reading"
    /\ NewRecord.number = current_grammar_q_data[1].number
    /\ NewRecord.source_page = current_grammar_q_data[1].page

\* C16: a line without watermark and without section marker that matches
\* the mondai label with number N emits the record of the open accumulator
\* if there is one (and nothing otherwise), sets mondai to N, leaves no
\* accumulator open and leaves section as it was.
C16_MondaiLabel ==
    [][ \A n \in MondaiNumbers :
          (LineRead /\ last'[1] = MondaiLine(n)) =>
              /\ current_mondai' = n
              /\ current_grammar_q_data' = None
              /\ section' = section
              /\ pc' = "run"
              /\ IF current_grammar_q_data = None
                 THEN questions' = questions
                 ELSE AccumulatorEmitted
      ]_vars

\* the label of mondai 3 was read as the fourth line while the sentence
\* opened by the third was open: its record is the only one, and no
\* accumulator is open
C16_Witness ==
    /\ prog = "main"
    /\ pc = "run"
    /\ last = Some(MondaiLine(3))
    /\ nlines = 4
    /\ Len(questions) = 1
    /\ section = "grammar"
    /\ current_grammar_q_data = None
    /\ current_mondai = 3
    /\ questions # <<>>
    /\ questions[Len(questions)].type = "Grammar/Reading"
    /\ questions[Len(questions)].number = <<"1">>

(***************************************************************************)
(* C17  numbered lines and continuation lines in the grammar section       *)
(***************************************************************************)
\* the digits of the 'N.' prefix the text starts with, empty when it has none
LeadingOrdinal(t) ==
    IF \E n \in 2..Len(t) : t[n] = "." /\ \A k \in 1..(n - 1) : t[k] \in Digits
    THEN LET n == CHOOSE m \in 2..Len(t) : t[m] = "." /\ \A k \in 1..(m - 1) : t[k] \in Digits
         IN  SubSeq(t, 1, n - 1)
    ELSE <<>>

\* a non-empty text that is no watermark, no section marker and no mondai label
Dispatched(t) ==
    /\ t # <<>>
    /\ ~HasWatermark(t)
    /\ ~Contains(t, VocabMarker)
    /\ ~Contains(t, GrammarMarker)
    /\ ~(Len(t) >= 3 /\ t[1] = "MON" /\ t[2] = "DAI" /\ t[3] \in Digits)

\* the step reads such a line in the grammar section with mondai >= 1
GrammarLineRead(t) ==
    LineRead /\ section = "grammar" /\ current_mondai >= 1 /\ Dispatched(t)

\* C17: in the grammar section with mondai >= 1 a line with a leading 'N.'
\* emits the record of the open accumulator (if any) and opens a new one
\* with number N, its own line and the current page; every other non-empty
\* line is appended to the open accumulator, or ignored when none is open.
\* An accumulator is given up only by emitting its record, and no other
\* Grammar/Reading record is emitted: each numbered line yields exactly one.
C17_NumberedLines ==
    [][ /\ \A t \in (IF last' # None THEN {LineText(last'[1])} ELSE {}) :
              GrammarLineRead(t) =>
                  /\ section' = section /\ current_mondai' = current_mondai /\ pc' = "run"
                  /\ IF LeadingOrdinal(t) # <<>>
                     THEN /\ IF current_grammar_q_data = None
                             THEN questions' = questions
                             ELSE AccumulatorEmitted
                          /\ current_grammar_q_data' =
                                Some([number |-> LeadingOrdinal(t),
                                      spans  |-> <<last'[1]>>,
                                      page   |-> page_num])
                     ELSE /\ questions' = questions
                          /\ current_grammar_q_data' =
                                IF current_grammar_q_data = None THEN None
                                ELSE Some([current_grammar_q_data[1] EXCEPT
                                              !.spans = Append(@, last'[1])])
        /\ ( /\ prog = "main"
             /\ current_grammar_q_data # None
             /\ \/ current_grammar_q_data' = None
                \/ pc = "run" /\ pc' = "done"
                \/ /\ current_grammar_q_data' # None
                   /\ current_grammar_q_data' # current_grammar_q_data
                   /\ Len(current_grammar_q_data'[1].spans) <= Len(current_grammar_q_data[1].spans) )
            => AccumulatorEmitted
        /\ ( /\ prog = "main"
             /\ Len(questions') > Len(questions)
             /\ NewRecord.type = "Grammar/Reading" )
            => (current_grammar_q_data # None /\ AccumulatorEmitted)
      ]_vars

\* sentence 1 was open when the line "2." was read: its record was emitted
\* and the accumulator of "2." is open, on the page of that line
C17_Witness ==
    /\ prog = "main"
    /\ pc = "run"
    /\ section = "grammar"
    /\ last = Some(OrdinalOnlyLine)
    /\ current_grammar_q_data = Some([number |-> <<"2">>, spans |-> <<OrdinalOnlyLine>>, page |-> page_num])
    /\ Len(questions) = 1
    /\ questions[1].type = "Grammar/Reading"
    /\ questions[1].number = <<"1">>
    /\ nlines = 4

(***************************************************************************)
(* C18  source_page of a Grammar/Reading record                            *)
(***************************************************************************)
\* C18: the source_page of a Grammar/Reading record is the number, counted
\* from 1, of the page its numbered first line was read on, also when
\* continuation lines lie on a later page or the flush happens while a
\* later page is scanned.
C18_SourcePage ==
    [][ GrammarFlushed => NewRecord.source_page = span_pages[1] ]_vars

\* a sentence numbered on page 1 took a continuation line on page 2 and
\* was flushed at the end of the document: its record says page 1
C18_Witness ==
    /\ prog = "main"
    /\ pc = "done"
    /\ page_num = 2
    /\ span_pages = <<1, 2>>
    /\ questions # <<>>
    /\ questions[Len(questions)].type = "Grammar/Reading"
    /\ questions[Len(questions)].source_page = 1

(***************************************************************************)
(* C19  no accumulator in the vocab section                                *)
(***************************************************************************)
\* C19: in extract_grammar_vocab_questions of JLPT-pdf-csv.py, whenever
\* section is vocab no accumulator is open: lines of the vocab section
\* never open or extend one.
C19_NoAccumulatorInVocab ==
    (prog = "main" /\ section = "vocab") => current_grammar_q_data = None

\* the vocab marker was read as the fourth line while a sentence was open:
\* the sentence was emitted, the section is vocab and nothing is open
C19_Witness ==
    /\ prog = "main"
    /\ pc = "run"
    /\ section = "vocab"
    /\ last = Some(<< Span(VocabMarker, 1, 0) >>)
    /\ nlines = 4
    /\ Len(questions) = 1
    /\ questions[1].type = "Grammar/Reading"
    /\ current_grammar_q_data = None

(***************************************************************************)
(* C20  vocab lines that do not fit their mondai                           *)
(***************************************************************************)
\* the text holds an opening corner bracket and, after it, a closing one
BracketPair(t) ==
    \E i \in 1..Len(t) : \E j \in (i + 1)..Len(t) : t[i] = "LB" /\ t[j] = "RB"

\* the text does not have the form mondai m expects
Misfit(m, t) ==
    \/ m \in {1, 2} /\ ~BracketPair(t)
    \/ m = 3 /\ LeadingOrdinal(t) = <<>>
    \/ m = 4 /\ ~Contains(t, <<"=">>)
    \/ m = 5 /\ ~Contains(t, <<"ARROW">>)
    \/ m \notin 1..5

\* C20: in the vocab section a line that does not have the form its mondai
\* expects emits no record, leaves section, mondai and the emitted records
\* as they were, and the scan goes on.
C20_MisfitDropped ==
    [][ \A t \in (IF last' # None THEN {LineText(last'[1])} ELSE {}) :
          (LineRead /\ section = "vocab" /\ Dispatched(t) /\ Misfit(current_mondai, t)) =>
              /\ questions' = questions
              /\ section' = section
              /\ current_mondai' = current_mondai
              /\ current_grammar_q_data' = current_grammar_q_data
              /\ pc' = "run"
      ]_vars

\* under mondai 1 a line with a bracket that is never closed was read after
\* a kanji line: the kanji record is still the only one
C20_Witness ==
    /\ prog = "main"
    /\ pc = "run"
    /\ section = "vocab"
    /\ current_mondai = 1
    /\ last = Some(<< Span(<<"6", ".", "LB", "k">>, 1, 0) >>)
    /\ Len(questions) = 1
    /\ questions[1].type = "Vocabulary (Kanji/Kana)"

(***************************************************************************)
(* C21  the split of the accumulated text at a listening flush             *)
(***************************************************************************)
\* a step of the listening scan that emits a record
ListeningFlushed == prog = "listening" /\ Len(questions') = Len(questions) + 1

\* the position of the last newline of t, 0 if there is none
LastNewline(t) ==
    LET at == {i \in 1..Len(t) : t[i] = "NL"}
    IN  IF at = {} THEN 0 ELSE MaxOf(at)

\* C21: at every listening flush, with T the accumulated text stripped: if T
\* holds a newline, question is what follows the last newline of T and
\* dialogue is what precedes it; if T holds none, question is T and dialogue
\* is empty. The emitted question never holds a newline.
C21_DialogueQuestionSplit ==
    [][ ListeningFlushed =>
          \E T \in {Strip(full_dialogue)} :
             LET k == LastNewline(T)
             IN  /\ NewRecord.question = SubSeq(T, k + 1, Len(T))
                 /\ NewRecord.dialogue = (IF k = 0 THEN <<>> ELSE SubSeq(T, 1, k - 1))
                 /\ ~Contains(NewRecord.question, <<"NL">>)
      ]_vars

\* the scan is over; one emitted record came from a one-part text and one
\* from a text of three parts
C21_Witness ==
    /\ prog = "listening"
    /\ pc = "done"
    /\ \E i, j \in 1..Len(questions) :
          /\ questions[i].dialogue = <<>>
          /\ questions[i].question # <<>>
          /\ Contains(questions[j].dialogue, <<"NL">>)
          /\ questions[j].question # <<>>

(***************************************************************************)
(* C22  the label and the seed of a listening question                     *)
(***************************************************************************)
\* a step of the listening scan that reads a start block
StartBlockRead ==
    /\ prog = "listening"
    /\ nlines' = nlines + 1
    /\ last' # None
    /\ ~HasWatermark(Strip(last'[1]))
    /\ StartsWithLabel(Strip(last'[1]))

\* C22: when a start block is read, the question it opens has the matched
\* label (the leading digits and BAN) as number, and the accumulated text is
\* the rest of the block after the label (compared with the white space
\* at both ends left out), whatever follows the label on its line.
C22_LabelAndSeed ==
    [][ StartBlockRead =>
          \E T \in {Strip(last'[1])} :
             /\ current_question_data' # None
             /\ current_question_data'[1].number = SubSeq(T, 1, LabelLen(T))
             /\ Strip(full_dialogue') = Strip(SubSeq(T, LabelLen(T) + 1, Len(T)))
      ]_vars

(***************************************************************************)
(* C23  the place of the placeholder                                       *)
(***************************************************************************)
\* the placeholder without its two spaces
Blank == <<"(", "_", "_", "_", "_", "_", "_", ")">>

\* the step emits the Fill-in-the-Blank record of the line it reads
FillInEmitted ==
    /\ prog = "main"
    /\ last' # None
    /\ nlines' = nlines + 1
    /\ Len(questions') = Len(questions) + 1
    /\ NewRecord.type = "Fill-in-the-Blank"

\* the places <<i, k>> of the spans of lines that the underlines uls mark
MarkedPlaces(lines, uls) ==
    {pl \in UNION {{<<i, k>> : k \in 1..Len(lines[i])} : i \in 1..Len(lines)} :
        is_span_marked(lines[pl[1]][pl[2]], uls)}

\* the text of lines that stands before the span at place pl
TextBefore(lines, pl) ==
    FullSentence(SubSeq(lines, 1, pl[1] - 1))
    \o Concat([k \in 1..(pl[2] - 1) |-> lines[pl[1]][k].text])

\* in question q the blank stands where the only marked span of lines
\* stands: what precedes the blank is what precedes that span, the ordinal
\* removed (white space at both ends left out of the comparison)
BlankInPlace(q, lines, uls) ==
    \A pl \in MarkedPlaces(lines, uls) :
        (MarkedPlaces(lines, uls) = {pl} /\ Strip(lines[pl[1]][pl[2]].text) # <<>>) =>
            /\ Contains(q, Blank)
            /\ Strip(SubSeq(q, 1, Find(q, Blank) - 1))
                  = Strip(SubOrdinal(Strip(TextBefore(lines, pl))))

\* C23: when exactly one span of an emitted Grammar/Reading or
\* Fill-in-the-Blank question is marked, the placeholder of the question
\* stands at the place of that span: the text before it is the
\* concatenation of the spans before the marked span, the ordinal removed,
\* also when the marked text occurs earlier in the sentence.
C23_PlaceholderInPlace ==
    [][ /\ GrammarFlushed =>
              BlankInPlace(NewRecord.question, current_grammar_q_data[1].spans, underlines)
        /\ FillInEmitted =>
              BlankInPlace(NewRecord.question, <<last'[1]>>, underlines)
      ]_vars

(***************************************************************************)
(* C24  the order of the emitted records                                   *)
(***************************************************************************)
\* the page the open question of the running scan was started on, if any
OpenPage ==
    IF prog = "main" /\ current_grammar_q_data # None THEN {current_grammar_q_data[1].page}
    ELSE IF prog = "listening" /\ current_question_data # None
    THEN {current_question_data[1].source_page}
    ELSE {}

\* C24: in the records of the grammar/vocab scan of JLPT-pdf-csv.py and of
\* the listening scan, source_page never decreases along the list; no
\* emitted record is of a page after the one being scanned, nor of a page
\* after the one the still open question was started on.
C24_SourcePageOrdered ==
    prog \in {"main", "listening"} =>
        /\ \A i, j \in 1..Len(questions) :
              i < j => questions[i].source_page <= questions[j].source_page
        /\ \A i \in 1..Len(questions) :
              /\ questions[i].source_page <= page_num
              /\ \A p \in OpenPage : questions[i].source_page <= p

\* the main scan is over with a sentence of page 1 and a sentence of page 2
\* emitted in that order
C24_Witness ==
    /\ prog = "main"
    /\ pc = "done"
    /\ Len(questions) = 2
    /\ questions[1].type = "Grammar/Reading"
    /\ questions[1].source_page = 1
    /\ questions[2].type = "Grammar/Reading"
    /\ questions[2].source_page = 2

====
